---- MODULE Spec2Model ----
(***************************************************************************)
(* hlerr: run a command, read its stdout and stderr through two pipes and  *)
(* re-emit them, stderr wrapped in colour markers (src/hlerr.c).           *)
(*                                                                         *)
(* The model has two processes.  The child is the environment: it writes   *)
(* bytes to the two pipes, closes them and terminates, in any order.  The  *)
(* controller is parent(): the poll loop, the renderer (stdout_putc,       *)
(* stderr_putc, flush_stdout_line, set_stderr, write_all_nointr) and the   *)
(* reaper.  System calls of the controller can fail where the code tests   *)
(* for failure.                                                            *)
(***************************************************************************)
EXTENDS Integers, Sequences, FiniteSets, TLC

\* ---------------------------------------------------------------- bounds
\* Capacity of stdout_line.  The source has 1024 (src/hlerr.c:25); the model
\* scales the array down, every comparison against sizeof(stdout_line) uses it.
LineCap == 2
\* Capacity of a kernel pipe, in bytes.
PipeCap == 1
\* Number of bytes the child writes in a run, both streams together.
MaxBytes == 3
\* Number of system calls of the controller that fail in a run (close, poll,
\* read, write, wait, or an error condition on a descriptor).
MaxFaults == 1
\* Number of zero-byte reads followed in a run (the loop can repeat them
\* without end where poll() reports POLLIN at end of stream).
MaxEofReads == 1

\* ------------------------------------------------------ program constants
EXIT_FAILURE == 1
\* exit(2) of usage(); the exit status of a child that returns -1 from main
USAGE_EXIT == 2
EXEC_FAILED_STATUS == 255
STDOUT_FILENO == 1
STDERR_FILENO == 2

Chan == {"out", "err"}
\* Byte values: an ordinary character and the newline.
Chars == {"c", "nl"}
\* The values a byte of each stream takes (stderr_putc never looks at the
\* value, one representative is enough there).
ChildChars(s) == IF s = "out" THEN Chars ELSE {"c"}
ExitCodes == {0, 3}
\* SIGKILL has a name in get_signal_name, 64 (a real-time signal) has none.
Signals == {9, 64}
\* argc: no command given, a command given.
Argcs == {1, 2}
\* errno of a failed poll() or wait(): an interruption by a signal, or any
\* other error.
Errnos == {"EINTR", "EIO"}

\* A byte travelling through the system: its value, its serial number in
\* its stream (below 1: not a byte of the child) and the pipe it came through.
MkByte(ch, id, s) == [ch |-> ch, id |-> id, src |-> s]
STDERR_BEGIN_MARKER == MkByte("BEGIN", 0, "mark")
STDERR_END_MARKER == MkByte("END", 0, "mark")

Min(a, b) == IF a < b THEN a ELSE b

VARIABLES
    eof_pollin,   \* platform: poll() sets POLLIN on a hung-up, empty pipe
    argc,         \* main: number of arguments
    nchild,       \* main: processes created by fork()
    status,       \* controller: the status wait() stored (kind "none" before)
    ppc,          \* controller: position in main() and parent()
    cpc,          \* child: "unborn", "exec" (in child(), before execvp),
                  \* "run", "w_out"/"w_err" (blocked in write), "exited"
    cstatus,      \* child: how it terminated ("none", "exited", "signaled",
                  \* "exec_failed", "setup_failed")
    nsent,        \* child: bytes written so far to each stream
    wopen,        \* child: write end of each pipe still open
    pipe,         \* bytes in flight in each pipe
    popen,        \* controller: its open pipe descriptors
    in_stderr,    \* renderer: current mode (TRUE = highlighted)
    stdout_line,  \* renderer: stdout_line[0 .. stdout_line_pos-1]
    out,          \* sink: the write_all_nointr calls that reached write()
                  \* (buf: what was to be written, data: what was written,
                  \* call: the renderer call that made it, an index of calls)
    nfail,        \* environment: failed system calls so far
    calls,        \* history: the calls of stdout_putc, stderr_putc and
                  \* flush_stdout_line made by parent(), with the byte c,
                  \* the count n the read returned, in_stderr and
                  \* stdout_line_pos before (mode, pos) and after (mode1,
                  \* pos1) the call, and its result rc
    loopExit,     \* history: how the loop was left ("none", "break", "error")
    errlog,       \* controller: perror()/fprintf(stderr) reports
    exitcode,     \* controller: return value of parent(), -1 while running
    summary       \* controller: the termination summary printed

childVars == <<cpc, cstatus, nsent, wopen>>
rendVars == <<in_stderr, stdout_line, out, nfail>>
loopVars == <<popen, calls, loopExit>>
endVars == <<exitcode, summary, status>>
mainVars == <<argc, nchild>>
vars == <<eof_pollin, argc, nchild, status, ppc, cpc, cstatus, nsent, wopen, pipe, popen,
          in_stderr, stdout_line, out, nfail, calls, loopExit, errlog,
          exitcode, summary>>

stdout_line_pos == Len(stdout_line)

\* ------------------------------------------------------------- renderer
\* The renderer functions are operators on a record R holding the globals
\* they touch (in_stderr, line, out), the index of the current call in calls,
\* the number wn of write_all_nointr calls that reached write() in it, and
\* the return code rc.  The oracle f says which of those writes fails (f.at,
\* 0 = none) and how many bytes it had written before failing (f.k).

Oracles == [at : 0..4, k : 0..LineCap]

RState == [in_stderr |-> in_stderr, line |-> stdout_line, out |-> out,
           call |-> Len(calls) + 1, wn |-> 0, rc |-> 0]

write_all_nointr(R, fd, buf, f) ==
    IF Len(buf) = 0
    THEN [R EXCEPT !.rc = 0]
    ELSE IF R.wn + 1 = f.at
    THEN [R EXCEPT !.wn = @ + 1, !.rc = -1,
                   !.out = Append(@, [fd |-> fd, ok |-> FALSE, buf |-> buf,
                       data |-> SubSeq(buf, 1, Min(f.k, Len(buf) - 1)),
                       call |-> R.call])]
    ELSE [R EXCEPT !.wn = @ + 1, !.rc = 0,
                   !.out = Append(@, [fd |-> fd, ok |-> TRUE, buf |-> buf,
                       data |-> buf, call |-> R.call])]

\* faulty variant: the marker is written whatever the current mode is
set_stderr_nocheck(R, is_stderr, f) ==
    LET R1 == [R EXCEPT !.in_stderr = is_stderr]
    IN  IF is_stderr
        THEN write_all_nointr(R1, STDERR_FILENO, <<STDERR_BEGIN_MARKER>>, f)
        ELSE write_all_nointr(R1, STDERR_FILENO, <<STDERR_END_MARKER>>, f)

\* faulty variant: the marker is written but the mode is not recorded
set_stderr_noflip(R, is_stderr, f) ==
    IF is_stderr = R.in_stderr
    THEN [R EXCEPT !.rc = 0]
    ELSE IF is_stderr
         THEN write_all_nointr(R, STDERR_FILENO, <<STDERR_BEGIN_MARKER>>, f)
         ELSE write_all_nointr(R, STDERR_FILENO, <<STDERR_END_MARKER>>, f)

set_stderr(R, is_stderr, f) ==
    IF is_stderr = R.in_stderr
    THEN [R EXCEPT !.rc = 0]
    ELSE LET R1 == [R EXCEPT !.in_stderr = is_stderr]
         IN  IF is_stderr
             THEN write_all_nointr(R1, STDERR_FILENO, <<STDERR_BEGIN_MARKER>>, f)
             ELSE write_all_nointr(R1, STDERR_FILENO, <<STDERR_END_MARKER>>, f)

\* faulty variant: the flush does not leave the highlighted mode
flush_stdout_line_nomode(R, f) ==
    LET R2 == write_all_nointr(R, STDOUT_FILENO, R.line, f)
    IN  IF R2.rc # 0 THEN [R2 EXCEPT !.rc = 1]
        ELSE [R2 EXCEPT !.line = <<>>, !.rc = 0]

\* faulty variant: stdout_line_pos is not reset after the block is written
flush_stdout_line_noclear(R, f) ==
    LET R1 == set_stderr(R, FALSE, f)
    IN  IF R1.rc # 0 THEN [R1 EXCEPT !.rc = 1]
        ELSE LET R2 == write_all_nointr(R1, STDOUT_FILENO, R1.line, f)
             IN  IF R2.rc # 0 THEN [R2 EXCEPT !.rc = 1]
                 ELSE [R2 EXCEPT !.rc = 0]

flush_stdout_line(R, f) ==
    LET R1 == set_stderr(R, FALSE, f)
    IN  IF R1.rc # 0 THEN [R1 EXCEPT !.rc = 1]
        ELSE LET R2 == write_all_nointr(R1, STDOUT_FILENO, R1.line, f)
             IN  IF R2.rc # 0 THEN [R2 EXCEPT !.rc = 1]
                 ELSE [R2 EXCEPT !.line = <<>>, !.rc = 0]

\* faulty variant: the buffer is flushed as soon as it has reached capacity
stdout_putc_eager(R, c, f) ==
    LET R2 == [R EXCEPT !.line = Append(@, c)]
    IN  IF c.ch = "nl" \/ Len(R2.line) >= LineCap
        THEN flush_stdout_line(R2, f) ELSE [R2 EXCEPT !.rc = 0]

\* faulty variant: every byte is flushed at once
stdout_putc_unbuffered(R, c, f) ==
    LET R1 == IF Len(R.line) >= LineCap THEN flush_stdout_line(R, f)
              ELSE [R EXCEPT !.rc = 0]
    IN  IF R1.rc # 0 THEN [R1 EXCEPT !.rc = 1]
        ELSE flush_stdout_line([R1 EXCEPT !.line = Append(@, c)], f)

\* faulty variant: the byte is stored in front of the buffered ones
stdout_putc_front(R, c, f) ==
    LET R1 == IF Len(R.line) >= LineCap THEN flush_stdout_line(R, f)
              ELSE [R EXCEPT !.rc = 0]
    IN  IF R1.rc # 0 THEN [R1 EXCEPT !.rc = 1]
        ELSE LET R2 == [R1 EXCEPT !.line = <<c>> \o @]
             IN  IF c.ch = "nl" THEN flush_stdout_line(R2, f) ELSE R2

\* faulty variant: the byte is stored even when the flush of the full
\* buffer failed
stdout_putc_nocheck(R, c, f) ==
    LET R1 == IF Len(R.line) >= LineCap THEN flush_stdout_line(R, f)
              ELSE [R EXCEPT !.rc = 0]
        R2 == [R1 EXCEPT !.line = Append(@, c)]
    IN  IF R1.rc # 0 THEN [R2 EXCEPT !.rc = 1]
        ELSE IF c.ch = "nl" THEN flush_stdout_line(R2, f) ELSE R2

\* faulty variant: the byte that finds the buffer full is dropped after the
\* flush
stdout_putc_dropfull(R, c, f) ==
    IF Len(R.line) >= LineCap THEN flush_stdout_line(R, f)
    ELSE LET R2 == [R EXCEPT !.line = Append(@, c), !.rc = 0]
         IN  IF c.ch = "nl" THEN flush_stdout_line(R2, f) ELSE R2

stdout_putc(R, c, f) ==
    LET R1 == IF Len(R.line) >= LineCap THEN flush_stdout_line(R, f)
              ELSE [R EXCEPT !.rc = 0]
    IN  IF R1.rc # 0 THEN [R1 EXCEPT !.rc = 1]
        ELSE LET R2 == [R1 EXCEPT !.line = Append(@, c)]
             IN  IF c.ch = "nl" THEN flush_stdout_line(R2, f) ELSE R2

stderr_putc(R, c, f) ==
    LET R1 == set_stderr(R, TRUE, f)
    IN  IF R1.rc # 0 THEN [R1 EXCEPT !.rc = 1]
        ELSE LET R2 == write_all_nointr(R1, STDERR_FILENO, <<c>>, f)
             IN  IF R2.rc # 0 THEN [R2 EXCEPT !.rc = 1] ELSE R2

\* The call made for a byte of channel s (src/hlerr.c:173, 184).
PutcName(s) == IF s = "out" THEN "stdout_putc" ELSE "stderr_putc"
putc(s, R, c, f) == IF s = "out" THEN stdout_putc(R, c, f) ELSE stderr_putc(R, c, f)

\* The entry of calls for a call that took the renderer from R1 to R2.
Call(fn, c, n, R1, R2) ==
    [fn |-> fn, c |-> c, n |-> n, mode |-> R1.in_stderr, pos |-> Len(R1.line),
     mode1 |-> R2.in_stderr, pos1 |-> Len(R2.line), rc |-> R2.rc]
NoByte == MkByte("none", 0, "none")

\* A renderer call with oracle f leaves R: the oracle is one the sink may
\* produce (a failure it names happens, and the failure budget allows it).
Rendered(R, f) ==
    /\ (f.at = 0) = (R.rc = 0)
    /\ f.at # 0 => nfail < MaxFaults
    /\ in_stderr' = R.in_stderr
    /\ stdout_line' = R.line
    /\ out' = R.out
    /\ nfail' = IF R.rc # 0 THEN nfail + 1 ELSE nfail

\* ---------------------------------------------------------------- Init
Init ==
    /\ eof_pollin \in BOOLEAN
    /\ argc \in Argcs
    /\ nchild = 0
    /\ status = [kind |-> "none", n |-> 0]
    /\ ppc = "main"
    /\ cpc = "unborn"
    /\ cstatus = "none"
    /\ nsent = [s \in Chan |-> 0]
    /\ wopen = [s \in Chan |-> FALSE]
    /\ pipe = [s \in Chan |-> <<>>]
    /\ popen = {}
    /\ in_stderr = FALSE
    /\ stdout_line = <<>>
    /\ out = <<>>
    /\ nfail = 0
    /\ calls = <<>>
    /\ loopExit = "none"
    /\ errlog = <<>>
    /\ exitcode = -1
    /\ summary = <<"none", 0>>

\* ---------------------------------------------------------------- child
\* The command behind the two write ends.  Its behaviour is arbitrary.  A run
\* is followed until the controller has returned from parent().
Running == ppc # "done"
Sent == nsent["out"] + nsent["err"]

\* child(), lines 77-114: the read ends closed, the write ends made fd 1 and
\* fd 2, and execvp() has replaced the image by the command
ChildExec ==
    /\ cpc = "exec" /\ Running
    /\ cpc' = "run"
    /\ UNCHANGED <<eof_pollin, mainVars, ppc, cstatus, nsent, wopen, pipe,
                   loopVars, rendVars, errlog, endVars>>

\* lines 114-119: execvp() returned: perror() writes its message to fd 2,
\* by now the stderr pipe (one byte stands for it), and child() returns -1
ChildExecFail ==
    /\ cpc = "exec" /\ Running
    /\ pipe' = [pipe EXCEPT !["err"] = Append(@, MkByte("c", 1, "err"))]
    /\ nsent' = [nsent EXCEPT !["err"] = 1]
    /\ cstatus' = "exec_failed"
    /\ cpc' = "exited"
    /\ wopen' = [s \in Chan |-> FALSE]
    /\ UNCHANGED <<eof_pollin, mainVars, ppc, loopVars, rendVars, errlog,
                   endVars>>

\* lines 77-112, 121-123: a close() or dup2() of child() fails: perror() and
\* return EXIT_FAILURE.  The message goes to the pipe only when the failing
\* call is the last close(), after fd 2 has become the pipe (piped).
ChildSetupFail(piped) ==
    /\ cpc = "exec" /\ Running
    /\ pipe' = IF piped
               THEN [pipe EXCEPT !["err"] = Append(@, MkByte("c", 1, "err"))]
               ELSE pipe
    /\ nsent' = IF piped THEN [nsent EXCEPT !["err"] = 1] ELSE nsent
    /\ cstatus' = "setup_failed"
    /\ cpc' = "exited"
    /\ wopen' = [s \in Chan |-> FALSE]
    /\ UNCHANGED <<eof_pollin, mainVars, ppc, loopVars, rendVars, errlog,
                   endVars>>

ChildWrite(s) ==
    /\ cpc = "run" /\ wopen[s] /\ Running
    /\ Sent < MaxBytes
    /\ Len(pipe[s]) < PipeCap
    /\ \E ch \in ChildChars(s) :
           pipe' = [pipe EXCEPT ![s] = Append(@, MkByte(ch, nsent[s] + 1, s))]
    /\ nsent' = [nsent EXCEPT ![s] = @ + 1]
    /\ UNCHANGED <<eof_pollin, mainVars, ppc, cpc, cstatus, wopen, loopVars, rendVars,
                   errlog, endVars>>

\* write() on a full pipe blocks the child
ChildBlock(s) ==
    /\ cpc = "run" /\ wopen[s] /\ Running
    /\ Sent < MaxBytes
    /\ Len(pipe[s]) >= PipeCap
    /\ cpc' = (IF s = "out" THEN "w_out" ELSE "w_err")
    /\ UNCHANGED <<eof_pollin, mainVars, ppc, cstatus, nsent, wopen, pipe, loopVars,
                   rendVars, errlog, endVars>>

BlockedOn == IF cpc = "w_out" THEN "out" ELSE "err"
ChildBlocked == cpc \in {"w_out", "w_err"}

\* ... until the controller has read a byte
ChildUnblock ==
    /\ ChildBlocked /\ Running
    /\ Len(pipe[BlockedOn]) < PipeCap
    /\ \E ch \in ChildChars(BlockedOn) :
           pipe' = [pipe EXCEPT ![BlockedOn] =
                        Append(@, MkByte(ch, nsent[BlockedOn] + 1, BlockedOn))]
    /\ nsent' = [nsent EXCEPT ![BlockedOn] = @ + 1]
    /\ cpc' = "run"
    /\ UNCHANGED <<eof_pollin, mainVars, ppc, cstatus, wopen, loopVars, rendVars,
                   errlog, endVars>>

ChildClose(s) ==
    /\ cpc = "run" /\ wopen[s] /\ Running
    /\ wopen' = [wopen EXCEPT ![s] = FALSE]
    /\ UNCHANGED <<eof_pollin, mainVars, ppc, cpc, cstatus, nsent, pipe, loopVars,
                   rendVars, errlog, endVars>>

ChildExit ==
    /\ cpc = "run" /\ Running
    /\ cstatus' = "exited"
    /\ cpc' = "exited"
    /\ wopen' = [s \in Chan |-> FALSE]
    /\ UNCHANGED <<eof_pollin, mainVars, ppc, nsent, pipe, loopVars, rendVars, errlog,
                   endVars>>

ChildKilled ==
    /\ cpc \notin {"unborn", "exited"} /\ Running
    /\ cstatus' = "signaled"
    /\ cpc' = "exited"
    /\ wopen' = [s \in Chan |-> FALSE]
    /\ UNCHANGED <<eof_pollin, mainVars, ppc, nsent, pipe, loopVars, rendVars, errlog,
                   endVars>>

\* ----------------------------------------------------------- controller
Report(msg) == errlog' = Append(errlog, msg)

\* A system call fails: the environment has a fault left to inject.
Fault == nfail < MaxFaults /\ nfail' = nfail + 1
rendState == <<in_stderr, stdout_line, out>>

\* faulty variant: usage() prints and returns, main() goes on
Usage_noexit ==
    /\ ppc = "main" /\ argc <= 1
    /\ Report(<<"usage", "none">>)
    /\ popen' = popen \cup {<<"out", "r">>, <<"out", "w">>}
    /\ ppc' = "pipe_err"
    /\ UNCHANGED <<eof_pollin, mainVars, childVars, pipe, calls, loopExit,
                   rendVars, endVars>>

\* main(), line 37 and usage(): no command
Usage ==
    /\ ppc = "main" /\ argc <= 1
    /\ Report(<<"usage", "none">>)
    /\ exitcode' = USAGE_EXIT
    /\ ppc' = "done"
    /\ UNCHANGED <<eof_pollin, mainVars, childVars, pipe, loopVars, rendVars,
                   summary, status>>

\* lines 43-53: pipe(stdout_pipe), then pipe(stderr_pipe)
MainPipe(s) ==
    /\ ppc = (IF s = "out" THEN "main" ELSE "pipe_err")
    /\ s = "out" => argc > 1
    /\ popen' = popen \cup {<<s, "r">>, <<s, "w">>}
    /\ ppc' = (IF s = "out" THEN "pipe_err" ELSE "fork")
    /\ UNCHANGED <<eof_pollin, mainVars, childVars, pipe, calls, loopExit,
                   rendVars, errlog, endVars>>

MainPipeFail(s) ==
    /\ ppc = (IF s = "out" THEN "main" ELSE "pipe_err")
    /\ s = "out" => argc > 1
    /\ Fault
    /\ Report(<<"pipe", "EIO">>)
    /\ exitcode' = EXIT_FAILURE
    /\ ppc' = "done"
    /\ UNCHANGED <<eof_pollin, mainVars, childVars, pipe, loopVars, rendState,
                   summary, status>>

\* lines 55-63: fork(); the child has its own copies of the descriptors
Fork ==
    /\ ppc = "fork"
    /\ nchild' = nchild + 1
    /\ cpc' = "exec"
    /\ wopen' = [s \in Chan |-> TRUE]
    /\ ppc' = "close_out_w"
    /\ UNCHANGED <<eof_pollin, argc, cstatus, nsent, pipe, loopVars, rendVars,
                   errlog, endVars>>

ForkFail ==
    /\ ppc = "fork"
    /\ Fault
    /\ Report(<<"fork", "EIO">>)
    /\ exitcode' = EXIT_FAILURE
    /\ ppc' = "done"
    /\ UNCHANGED <<eof_pollin, mainVars, childVars, pipe, loopVars, rendState,
                   summary, status>>

\* parent(), lines 132-141: close the write ends, stdout's then stderr's
ParentCloseW(s) ==
    /\ ppc = (IF s = "out" THEN "close_out_w" ELSE "close_err_w")
    /\ popen' = popen \ {<<s, "w">>}
    /\ ppc' = (IF s = "out" THEN "close_err_w" ELSE "poll")
    /\ UNCHANGED <<eof_pollin, mainVars, childVars, pipe, calls, loopExit,
                   rendVars, errlog, endVars>>

ParentCloseWFail(s) ==
    /\ ppc = (IF s = "out" THEN "close_out_w" ELSE "close_err_w")
    /\ Fault
    /\ Report(<<"close", "EIO">>)
    /\ ppc' = "reap_child"
    /\ UNCHANGED <<eof_pollin, mainVars, childVars, pipe, loopVars, rendState, endVars>>

\* What poll() reports for the read end of pipe s.
Hup(s) == ~wopen[s] /\ <<s, "w">> \notin popen
Revents(s) ==
    IF pipe[s] # <<>>
    THEN {"IN"} \cup (IF Hup(s) THEN {"HUP"} ELSE {})
    ELSE IF Hup(s)
    THEN {"HUP"} \cup (IF eof_pollin THEN {"IN"} ELSE {})
    ELSE {}

\* lines 152-155: poll() returns -1
PollFail ==
    /\ ppc = "poll"
    /\ Fault
    /\ \E e \in Errnos : Report(<<"poll", e>>)
    /\ loopExit' = "error"
    /\ ppc' = "reap_child"
    /\ UNCHANGED <<eof_pollin, mainVars, childVars, pipe, popen, calls,
                   rendState, endVars>>

\* lines 157-162: POLLERR or POLLNVAL on either descriptor
PollStreamError(s) ==
    /\ ppc = "poll"
    /\ Fault
    /\ Report(<<"stream error", "none">>)
    /\ loopExit' = "error"
    /\ ppc' = "reap_child"
    /\ UNCHANGED <<eof_pollin, mainVars, childVars, pipe, popen, calls, rendState,
                   endVars>>

\* One iteration, from the return of poll() (line 151) to the test of line
\* 188 or the goto that leaves the loop.  Nothing in it blocks or depends on
\* what the child does meanwhile (it reads only descriptors poll() reported
\* readable), so an iteration is one step.  L is the state it works on:
\* the renderer R, the faults so far, the pipes, the calls forwarded, the
\* locals got_stdout/got_stderr, pfd[].revents, whether a goto reap_child
\* was taken, and the reports.  The locals are dead when it ends.
LState ==
    [R |-> RState, nf |-> nfail, pipe |-> pipe, calls |-> calls,
     got |-> [s \in Chan |-> FALSE], rv |-> [s \in Chan |-> Revents(s)],
     stop |-> FALSE, err |-> errlog]

EofReads(L) == Cardinality({i \in 1..Len(L.calls) : L.calls[i].n = 0})

\* lines 173-174, 184-185: read_nointr returned n (not -1) and left c; the
\* byte is handed to the renderer and got_* is set, the result is ignored
Forward(L, s, c, n, f) ==
    LET R1 == [L.R EXCEPT !.wn = 0, !.call = Len(L.calls) + 1]
        R2 == putc(s, R1, c, f)
    IN  [L EXCEPT !.R = R2,
                  !.nf = IF R2.rc # 0 THEN @ + 1 ELSE @,
                  !.pipe[s] = IF n = 1 THEN Tail(@) ELSE @,
                  !.calls = Append(@, Call(PutcName(s), c, n, R1, R2)),
                  !.got[s] = TRUE]

\* The oracles the environment may answer a renderer call with.
OraclesFor(L, s, c, n) ==
    {f \in Oracles : LET L2 == Forward(L, s, c, n, f)
                     IN  (f.at = 0) = (L2.R.rc = 0) /\ L2.nf <= MaxFaults}

\* The value of the local c after a read that stored nothing: any value (the
\* serial number, below 1, tells such bytes apart in the histories).
Junk(L, ch, s) == MkByte(ch, 0 - (EofReads(L) + 1), s)

\* lines 169-172, 180-183: read_nointr returned -1
ReadFailed(L, s) ==
    [L EXCEPT !.stop = TRUE, !.nf = @ + 1, !.err = Append(@, <<"read", "EIO">>)]

\* lines 166-175 (s = "out") and 177-186 (s = "err"): the states the block
\* can leave.  read() of a pipe with bytes returns 1 byte; of an empty pipe
\* (reported readable only at end of stream) it returns 0 and leaves c, an
\* uninitialised local, at whatever value it has.
ReadChan(L, s) ==
    IF L.stop \/ "IN" \notin L.rv[s] THEN {L}
    ELSE (IF L.nf < MaxFaults THEN {ReadFailed(L, s)} ELSE {})
         \cup
         (IF L.pipe[s] # <<>>
          THEN {Forward(L, s, Head(L.pipe[s]), 1, f) :
                    f \in OraclesFor(L, s, Head(L.pipe[s]), 1)}
          ELSE IF EofReads(L) < MaxEofReads
          THEN UNION {{Forward(L, s, Junk(L, ch, s), 0, f) :
                           f \in OraclesFor(L, s, Junk(L, ch, s), 0)} :
                      ch \in ChildChars(s)}
          ELSE {})

\* faulty variant: stderr's block stands before stdout's
Iterations_errfirst ==
    IF \E s \in Chan : Revents(s) # {}
    THEN UNION {ReadChan(L1, "out") : L1 \in ReadChan(LState, "err")}
    ELSE {}

\* poll() returns once a descriptor has an event; stdout's block, then
\* stderr's
Iterations ==
    IF \E s \in Chan : Revents(s) # {}
    THEN UNION {ReadChan(L1, "err") : L1 \in ReadChan(LState, "out")}
    ELSE {}

Iterated(L) ==
    /\ in_stderr' = L.R.in_stderr
    /\ stdout_line' = L.R.line
    /\ out' = L.R.out
    /\ nfail' = L.nf
    /\ pipe' = L.pipe
    /\ calls' = L.calls
    /\ errlog' = L.err

\* an iteration that forwarded something: line 188 does not break
LoopAgain ==
    /\ ppc = "poll"
    /\ \E L \in Iterations :
         /\ ~L.stop /\ (L.got["out"] \/ L.got["err"])
         /\ Iterated(L)
    /\ ppc' = "poll"
    /\ UNCHANGED <<eof_pollin, mainVars, childVars, popen, loopExit, endVars>>

\* an iteration that forwarded nothing: line 188 breaks
LoopBreak ==
    /\ ppc = "poll"
    /\ \E L \in Iterations :
         /\ ~L.stop /\ ~L.got["out"] /\ ~L.got["err"]
         /\ Iterated(L)
    /\ loopExit' = "break"
    /\ ppc' = "reap_child"
    /\ UNCHANGED <<eof_pollin, mainVars, childVars, popen, endVars>>

\* an iteration in which a read failed: goto reap_child
LoopReadFail ==
    /\ ppc = "poll"
    /\ \E L \in Iterations :
         /\ L.stop
         /\ Iterated(L)
    /\ loopExit' = "error"
    /\ ppc' = "reap_child"
    /\ UNCHANGED <<eof_pollin, mainVars, childVars, popen, endVars>>

\* lines 191-193: reap_child: flush_stdout_line(), result ignored
ReapFlush ==
    /\ ppc = "reap_child"
    /\ \E f \in Oracles :
         /\ Rendered(flush_stdout_line(RState, f), f)
         /\ calls' = Append(calls, Call("flush_stdout_line", NoByte, -1, RState,
                                        flush_stdout_line(RState, f)))
    /\ ppc' = "wait"
    /\ UNCHANGED <<eof_pollin, mainVars, childVars, pipe, popen, loopExit, errlog,
                   endVars>>

\* get_signal_name: the signals of the table (lines 317-344), by their
\* Linux numbers
NamedSignals == {1, 2, 3, 4, 5, 6, 7, 8, 9, 10, 11, 12, 13, 14, 15, 17, 18, 19,
                 20, 21, 22, 23, 24, 25, 26, 27, 29, 31}
get_signal_name(sig) == IF sig \in NamedSignals THEN "SIGname" ELSE "NULL"

\* The statuses wait() can store for the terminated child (the exit code
\* of a command, or the number of the signal, is what the kernel reports).
WaitStatuses ==
    IF cstatus = "exited"
    THEN {[kind |-> "exited", n |-> n] : n \in ExitCodes}
    ELSE IF cstatus = "exec_failed"
    THEN {[kind |-> "exited", n |-> EXEC_FAILED_STATUS]}
    ELSE IF cstatus = "setup_failed"
    THEN {[kind |-> "exited", n |-> EXIT_FAILURE]}
    ELSE {[kind |-> "signaled", n |-> n] : n \in Signals}

\* faulty variant: the child's exit code is not passed on
report_status_nocode(st) ==
    IF st.kind = "exited"
    THEN [summary |-> <<"Exited with status", st.n>>, code |-> 0]
    ELSE IF st.kind = "signaled"
    THEN [summary |-> <<"Killed by signal (name)", st.n>>, code |-> EXIT_FAILURE]
    ELSE [summary |-> <<"Unknown status", st.n>>, code |-> EXIT_FAILURE]

\* lines 202-219: the summary printed for a status and the value returned
report_status(st) ==
    IF st.kind = "exited"
    THEN [summary |-> <<"Exited with status", st.n>>, code |-> st.n]
    ELSE IF st.kind = "signaled"
    THEN [summary |-> IF get_signal_name(st.n) # "NULL"
                      THEN <<"Killed by signal (name)", st.n>>
                      ELSE <<"Killed by signal", st.n>>,
          code |-> EXIT_FAILURE]
    ELSE [summary |-> <<"Unknown status", st.n>>, code |-> EXIT_FAILURE]

\* lines 195-219: wait() returns the terminated child and its status
Wait ==
    /\ ppc = "wait"
    /\ cpc = "exited"
    /\ \E st \in WaitStatuses :
         /\ status' = st
         /\ summary' = report_status(st).summary
         /\ exitcode' = report_status(st).code
    /\ ppc' = "done"
    /\ UNCHANGED <<eof_pollin, mainVars, childVars, pipe, loopVars, rendVars,
                   errlog>>

\* lines 197-200, 226-228: wait() returns -1
WaitFail ==
    /\ ppc = "wait"
    /\ Fault
    /\ \E e \in Errnos : Report(<<"wait", e>>)
    /\ exitcode' = EXIT_FAILURE
    /\ ppc' = "done"
    /\ UNCHANGED <<eof_pollin, mainVars, childVars, pipe, loopVars, rendState,
                   summary, status>>

Next ==
    \/ Usage
    \/ \E s \in Chan : MainPipe(s)
    \/ \E s \in Chan : MainPipeFail(s)
    \/ Fork
    \/ ForkFail
    \/ ChildExec
    \/ ChildExecFail
    \/ \E piped \in BOOLEAN : ChildSetupFail(piped)
    \/ \E s \in Chan : ChildWrite(s)
    \/ \E s \in Chan : ChildBlock(s)
    \/ ChildUnblock
    \/ \E s \in Chan : ChildClose(s)
    \/ ChildExit
    \/ ChildKilled
    \/ \E s \in Chan : ParentCloseW(s)
    \/ \E s \in Chan : ParentCloseWFail(s)
    \/ PollFail
    \/ \E s \in Chan : PollStreamError(s)
    \/ LoopAgain
    \/ LoopBreak
    \/ LoopReadFail
    \/ ReapFlush
    \/ Wait
    \/ WaitFail

Spec == Init /\ [][Next]_vars

\* ------------------------------------------------------------ properties
Flushed == ppc \in {"wait", "done"}

\* The calls the loop made for a channel: those of stdout_putc / stderr_putc.
Forwards == {i \in DOMAIN calls : calls[i].fn # "flush_stdout_line"}

\* C1: the loop leaves through its normal break only when both channels are
\* exhausted: both write ends are closed and neither pipe holds an unread
\* byte (once that is so it stays so, hence it is stated of every state
\* after the break).
C1_BreakOnlyWhenExhausted ==
    loopExit = "break" => \A s \in Chan : ~wopen[s] /\ pipe[s] = <<>>

\* C2: the controller is never blocked in wait() while the child is blocked
\* writing to a full pipe whose read end the controller still holds open.
\* It is stated of the runs in which no system call of the controller fails.
C2_NoWaitWhileChildBlocked ==
    nfail = 0 => ~(ppc = "wait" /\ ChildBlocked /\ <<BlockedOn, "r">> \in popen)

\* C3: stdout_putc / stderr_putc are called only with a byte actually read
\* from the pipe: no call follows a read that returned zero bytes.
C3_NoForwardOnZeroRead ==
    \A i \in Forwards : calls[i].n = 1 /\ calls[i].c.id >= 1

\* What has reached the sink, in order: the bytes and markers written.
RECURSIVE Flatten(_)
Flatten(o) == IF o = <<>> THEN <<>>
              ELSE Flatten(SubSeq(o, 1, Len(o) - 1)) \o o[Len(o)].data
Sink == Flatten(out)
\* Byte b is in the written sequence q; the place of its first occurrence.
WrittenIn(q, b) == \E k \in DOMAIN q : q[k] = b
FirstPosIn(q, b) == CHOOSE k \in DOMAIN q :
                        q[k] = b /\ \A m \in 1..(k - 1) : q[m] # b
Written(b) == WrittenIn(Sink, b)
FirstPos(b) == FirstPosIn(Sink, b)
\* The calls that handed on a byte read from a pipe, in the order read.
Reads == {i \in Forwards : calls[i].n = 1}

\* C4 as claimed: of two bytes read from either channel, the one read
\* earlier is written to the sink earlier.
C4_ReadOrderIsWriteOrder ==
    nfail = 0 =>
      \A i, j \in Reads :
        (i < j /\ Written(calls[j].c)) =>
            /\ Written(calls[i].c)
            /\ FirstPos(calls[i].c) < FirstPos(calls[j].c)

\* C4 as amended: of two bytes read from the same channel, the one read
\* earlier reaches the sink first (whenever both reach it, and it does reach
\* it when no write has failed).
C4_SameOriginOrder ==
    LET q == Sink
    IN  \A i, j \in Reads :
          (i < j /\ calls[i].c.src = calls[j].c.src
                 /\ WrittenIn(q, calls[j].c)) =>
              /\ nfail = 0 => WrittenIn(q, calls[i].c)
              /\ WrittenIn(q, calls[i].c) =>
                     FirstPosIn(q, calls[i].c) < FirstPosIn(q, calls[j].c)

\* a stderr byte read after a stdout byte is in the sink before it, and two
\* stdout bytes are in the sink in the order read
C4_Witness ==
    /\ nfail = 0
    /\ \E i, j \in Reads :
         /\ i < j /\ calls[i].c.src = "out" /\ calls[j].c.src = "err"
         /\ Written(calls[i].c) /\ Written(calls[j].c)
         /\ FirstPos(calls[j].c) < FirstPos(calls[i].c)
    /\ \E i, j \in Reads :
         /\ i < j /\ calls[i].c.src = "out" /\ calls[j].c.src = "out"
         /\ Written(calls[i].c) /\ Written(calls[j].c)

\* The writes of call i, in order, and those of them that are no markers.
IsMarker(e) == e.buf[1].src = "mark"
W(i) == SelectSeq(out, LAMBDA e : e.call = i)
Blocks(w) == SelectSeq(w, LAMBDA e : ~IsMarker(e))
AllOk(w) == \A k \in DOMAIN w : w[k].ok
\* The markers of a kind that reached the sink, and those whose write was
\* issued (a write that fails leaves nothing of the marker in the sink).
InSink(M) == Cardinality({k \in DOMAIN out : out[k].data = <<M>>})
Issued(M) == Cardinality({k \in DOMAIN out : out[k].buf = <<M>>})
MarkerWriteFailed == \E k \in DOMAIN out : IsMarker(out[k]) /\ ~out[k].ok

RECURSIVE FlattenIssued(_)
FlattenIssued(o) ==
    IF o = <<>> THEN <<>>
    ELSE FlattenIssued(SubSeq(o, 1, Len(o) - 1))
         \o (IF IsMarker(o[Len(o)]) THEN o[Len(o)].buf ELSE o[Len(o)].data)
IssuedSink == FlattenIssued(out)

\* The markers of a sequence of written units strictly alternate begin, end,
\* begin, ... starting with begin.
MarkersAlternate(q) ==
    LET m == SelectSeq(q, LAMBDA b : b.src = "mark")
    IN  \A k \in DOMAIN m :
          m[k] = IF k % 2 = 1 THEN STDERR_BEGIN_MARKER ELSE STDERR_END_MARKER
\* The last marker before position p of q ("none" if there is none).
RECURSIVE LastMarker(_, _)
LastMarker(q, p) ==
    IF p <= 1 THEN "none"
    ELSE IF q[p - 1].src = "mark" THEN q[p - 1].ch
    ELSE LastMarker(q, p - 1)
\* Every stderr byte of q stands after a begin marker with no end marker in
\* between, every stdout byte after no unmatched begin marker.
BytesInMode(q) ==
    \A p \in DOMAIN q :
      /\ q[p].src = "err" => LastMarker(q, p) = "BEGIN"
      /\ q[p].src = "out" => LastMarker(q, p) \in {"none", "END"}
\* A render call writes one stderr byte (stderr_putc) or stdout blocks
\* (stdout_putc, flush_stdout_line), never both.
NoMix ==
    \A i \in DOMAIN calls :
      LET d == Blocks(W(i))
      IN  IF calls[i].fn = "stderr_putc"
          THEN /\ Len(d) <= 1
               /\ \A k \in DOMAIN d :
                    d[k].fd = STDERR_FILENO /\ d[k].buf = <<calls[i].c>>
          ELSE \A k \in DOMAIN d :
                 /\ d[k].fd = STDOUT_FILENO
                 /\ \A m \in DOMAIN d[k].buf : d[k].buf[m].src = "out"

Flushes(i) ==
    \/ calls[i].fn = "flush_stdout_line"
    \/ /\ calls[i].fn = "stdout_putc"
       /\ calls[i].c.ch = "nl" \/ calls[i].pos >= LineCap
MarkersOf(w, written) ==
    SelectSeq(w, LAMBDA e : IsMarker(e) /\ (written => e.ok))

\* The contract of C7 for call i; written = TRUE counts the markers that
\* reached the sink, written = FALSE the marker writes issued.
ModeContractOf(i, w, written) ==
    LET m == MarkersOf(w, written)
    IN  /\ calls[i].fn = "stderr_putc" =>
            /\ calls[i].mode1
            /\ IF calls[i].mode THEN m = <<>>
               ELSE /\ Len(m) = 1 /\ m[1] = w[1]
                    /\ m[1].buf = <<STDERR_BEGIN_MARKER>>
        /\ Flushes(i) =>
            /\ ~calls[i].mode1
            /\ IF ~calls[i].mode THEN m = <<>>
               ELSE /\ Len(m) = 1 /\ m[1] = w[1]
                    /\ m[1].buf = <<STDERR_END_MARKER>>

ModeContract(i, written) == ModeContractOf(i, W(i), written)

ReachesCap(i) ==
    /\ calls[i].fn = "stdout_putc"
    /\ calls[i].pos = LineCap - 1 /\ calls[i].c.ch # "nl"
FindsFull(i) == calls[i].fn = "stdout_putc" /\ calls[i].pos = LineCap
\* Call i wrote the whole buffer, LineCap bytes, as one block.
WroteFullBlock(i) ==
    \E k \in DOMAIN W(i) :
      W(i)[k].fd = STDOUT_FILENO /\ W(i)[k].ok /\ Len(W(i)[k].data) = LineCap

\* C8 as claimed: the stdout_putc call that makes the buffer reach capacity
\* flushes: it writes the buffered bytes as one block and leaves the buffer
\* empty.
C8_FlushOnReachingCapacity ==
    nfail = 0 =>
      \A i \in DOMAIN calls :
        ReachesCap(i) => WroteFullBlock(i) /\ calls[i].pos1 = 0

\* C8 as amended: the call that makes the buffer reach capacity writes
\* nothing and leaves the buffer full; the flush happens in the next
\* stdout_putc call, which finds the buffer full and writes its LineCap
\* bytes as one block before it stores its own byte.  The buffer never
\* holds more than LineCap bytes.
C8_FlushWhenFoundFull ==
    /\ stdout_line_pos <= LineCap
    /\ \A i \in DOMAIN calls :
         /\ ReachesCap(i) => W(i) = <<>> /\ calls[i].pos1 = LineCap
         /\ FindsFull(i) =>
              LET d == Blocks(W(i))
              IN  /\ W(i) # <<>>
                  /\ d # <<>> => /\ d[1].fd = STDOUT_FILENO
                                 /\ Len(d[1].buf) = LineCap
                  /\ AllOk(W(i)) =>
                       /\ WroteFullBlock(i)
                       /\ calls[i].pos1 = (IF calls[i].c.ch = "nl" THEN 0 ELSE 1)

\* LineCap bytes without a newline were buffered from empty with nothing
\* written, and the next stdout byte flushed them as one block
C8_Witness ==
    /\ nfail = 0
    /\ \E i, j \in DOMAIN calls :
         /\ i < j
         /\ ReachesCap(i) /\ calls[i].pos1 = LineCap
         /\ \A k \in DOMAIN out : out[k].call <= i => out[k].fd # STDOUT_FILENO
         /\ FindsFull(j) /\ WroteFullBlock(j) /\ calls[j].pos1 = 1

\* C9: stdout bytes are line-buffered: whatever reaches the sink of a byte
\* accepted by stdout_putc is written by a call that flushes (a stdout_putc
\* call that accepts a newline or finds the buffer full, or the closing
\* flush), made no earlier than the call that accepted the byte; stderr_putc
\* and the other stdout_putc calls write no stdout byte.
C9_LineBuffered ==
    /\ \A k \in DOMAIN out :
         (out[k].fd = STDOUT_FILENO \/ \E m \in DOMAIN out[k].buf :
                                          out[k].buf[m].src = "out")
             => Flushes(out[k].call)
    /\ \A i \in DOMAIN calls : \A k \in DOMAIN out :
         (calls[i].fn = "stdout_putc"
            /\ \E m \in DOMAIN out[k].data : out[k].data[m] = calls[i].c)
             => out[k].call >= i
    /\ \A i \in DOMAIN calls :
         (calls[i].fn = "stdout_putc" /\ ~Flushes(i)) => W(i) = <<>>

\* a stdout byte is held in the buffer while a stderr byte read after it
\* has been written, and nothing of stdout has been written
C9_Witness ==
    /\ nfail = 0 /\ Len(calls) >= 2
    /\ calls[1].fn = "stdout_putc" /\ calls[2].fn = "stderr_putc"
    /\ stdout_line = <<calls[1].c>>
    /\ Written(calls[2].c) /\ ~Written(calls[1].c)

\* C10: an I/O failure during multiplexing ends the loop in that iteration:
\* after a renderer call of the loop in which a write failed, the loop hands
\* on no further byte (the failures of poll and read and the error
\* conditions leave the loop by construction of the goto).
C10_WriteFailureEndsLoop ==
    \A i, j \in Forwards : (i < j) => calls[i].rc = 0

\* C11: an interruption (EINTR) of a blocking call of the controller is
\* retried inside the call: it is never reported as an error (and so never
\* ends the loop or the run).
C11_EintrNeverSurfaces ==
    \A k \in DOMAIN errlog : errlog[k][2] # "EINTR"

\* wait() has failed in this run.
WaitFailed == \E k \in DOMAIN errlog : errlog[k][1] = "wait"

\* C12: the summary and the exit code follow from the status wait() stored:
\* a normal exit with code N gives "Exited with status N" and exit code N; a
\* kill by signal S gives "Killed by signal S", with the name when S is in
\* the table, and EXIT_FAILURE; any other status gives "Unknown status" and
\* EXIT_FAILURE.  The status is one the child terminated with.  A summary is
\* printed only by the step that ends the run, and it is printed in every
\* run in which wait() was reached and did not fail.
C12_StatusReported ==
    /\ status.kind = "none" => summary = <<"none", 0>>
    /\ status.kind = "exited" =>
         /\ summary = <<"Exited with status", status.n>>
         /\ exitcode = status.n
         /\ cstatus \in {"exited", "exec_failed", "setup_failed"}
         /\ cstatus = "exec_failed" => status.n = EXEC_FAILED_STATUS
         /\ cstatus = "setup_failed" => status.n = EXIT_FAILURE
    /\ status.kind = "signaled" =>
         /\ summary = <<IF status.n \in NamedSignals
                        THEN "Killed by signal (name)"
                        ELSE "Killed by signal", status.n>>
         /\ exitcode = EXIT_FAILURE
         /\ cstatus = "signaled"
    /\ status.kind \notin {"none", "exited", "signaled"} =>
         /\ summary = <<"Unknown status", status.n>>
         /\ exitcode = EXIT_FAILURE
    /\ summary # <<"none", 0>> => ppc = "done"
    /\ (ppc = "done" /\ nchild = 1 /\ ~WaitFailed) => status.kind # "none"

\* the child exited with code 3 and the run ended with that summary and code,
\* after a run in which the loop forwarded a byte
C12_Witness ==
    /\ ppc = "done" /\ cstatus = "exited"
    /\ status = [kind |-> "exited", n |-> 3]
    /\ summary = <<"Exited with status", 3>> /\ exitcode = 3
    /\ Reads # {}

\* C13: when an internal operation of the controller has failed in a run,
\* the controller's exit code is EXIT_FAILURE.
C13_FailureExitCode ==
    (ppc = "done" /\ nfail > 0) => exitcode = EXIT_FAILURE

\* The closing flushes among the calls, and the runs that have left
\* parent()'s loop part: the closing flush is behind them.
ClosingFlushes == {i \in DOMAIN calls : calls[i].fn = "flush_stdout_line"}
PastFlush == ppc = "wait" \/ (ppc = "done" /\ nchild = 1)

C15_ExecFailureReported ==
    (cstatus = "exec_failed" /\ nfail = 0) =>
        /\ Cardinality(Forwards) <= Sent
        /\ loopExit \in {"none", "break"}
        /\ ppc = "done" =>
             /\ summary = <<"Exited with status", EXEC_FAILED_STATUS>>
             /\ exitcode = EXEC_FAILED_STATUS /\ exitcode # 0

\* pipe() or fork() has failed in this run.
SpawnFailed == \E k \in DOMAIN errlog : errlog[k][1] \in {"pipe", "fork"}
UsagePrinted == errlog = <<<<"usage", "none">>>>

\* C16 as claimed: without a command the program prints the usage message
\* and exits with code 2, having created no pipe and no process; every
\* other run spawns exactly one child.
C16_UsageOrOneChild ==
    /\ argc <= 1 =>
         /\ nchild = 0 /\ cpc = "unborn" /\ popen = {}
         /\ ppc = "done" => exitcode = USAGE_EXIT /\ UsagePrinted
    /\ (argc > 1 /\ ppc = "done") => nchild = 1

\* C16 as amended: without a command the program prints the usage message
\* and exits with code 2, having created no pipe and no process; every
\* other run spawns at most one child: exactly one, unless pipe() or fork()
\* fails, and then none and the exit code is EXIT_FAILURE.
C16_UsageOrAtMostOneChild ==
    /\ nchild <= 1
    /\ nchild = 0 <=> cpc = "unborn"
    /\ argc <= 1 =>
         /\ nchild = 0 /\ popen = {}
         /\ ppc = "done" => exitcode = USAGE_EXIT /\ UsagePrinted
    /\ (argc > 1 /\ ppc = "done") =>
         IF SpawnFailed THEN nchild = 0 /\ exitcode = EXIT_FAILURE
         ELSE nchild = 1
    /\ (argc > 1 /\ ppc \notin {"main", "pipe_err", "fork", "done"}) => nchild = 1

\* the run without a command has ended: usage printed, exit code 2
C16_Witness ==
    /\ argc <= 1 /\ ppc = "done"
    /\ exitcode = USAGE_EXIT /\ UsagePrinted /\ nchild = 0

\* The calls a step of the loop has added, and the one among them made for
\* channel s, if any.
NewCalls == SubSeq(calls', Len(calls) + 1, Len(calls'))
NewFor(s) == SelectSeq(NewCalls, LAMBDA e : e.fn = PutcName(s))

\* C17: an iteration of the loop reads at most one byte from each channel,
\* and only from a channel poll() reported readable; the byte read is the
\* one at the head of the pipe; when both channels are read, stdout's byte
\* is read and handed to stdout_putc before stderr's is read and handed to
\* stderr_putc.  No other step of the controller takes a byte from a pipe.
C17_OneBytePerReadyChannel ==
    [][/\ (ppc = "poll" /\ (calls' # calls \/ ppc' # ppc)) =>
            /\ \A s \in Chan :
                 /\ Len(NewFor(s)) <= 1
                 /\ Len(NewFor(s)) = 1 =>
                      /\ "IN" \in Revents(s)
                      /\ NewFor(s)[1].n \in {0, 1}
                      /\ NewFor(s)[1].n = 1 =>
                           /\ pipe[s] # <<>>
                           /\ NewFor(s)[1].c = Head(pipe[s])
                           /\ pipe'[s] = Tail(pipe[s])
                      /\ NewFor(s)[1].n = 0 =>
                           pipe[s] = <<>> /\ pipe'[s] = <<>>
                 /\ Len(NewFor(s)) = 0 => pipe'[s] = pipe[s]
            /\ Len(NewCalls) = Len(NewFor("out")) + Len(NewFor("err"))
            /\ Len(NewCalls) = 2 =>
                 /\ NewCalls[1].fn = "stdout_putc"
                 /\ NewCalls[2].fn = "stderr_putc"
       /\ (ppc # "poll" /\ ppc' # ppc) => pipe' = pipe
      ]_vars

\* One iteration has read a byte from each channel, stdout's first: the
\* child wrote a byte to each pipe and then blocked on a further write to
\* the full stdout pipe, so both bytes were in the pipes when the byte of
\* stdout, handed on first, was read, and both pipes are empty now.
C17_Witness ==
    /\ cpc = "w_out" /\ nsent = [s \in Chan |-> 1]
    /\ \A s \in Chan : pipe[s] = <<>>
    /\ Len(calls) = 2 /\ ppc = "poll"
    /\ calls[1].fn = "stdout_putc" /\ calls[1].n = 1
    /\ calls[2].fn = "stderr_putc" /\ calls[2].n = 1

\* C18: the controller has closed both pipe write ends of its own before
\* its first poll, and when the run ends it has closed each of the two read
\* ends.  It is stated of the runs in which no system call fails.
C18_ChannelEndsClosed ==
    nfail = 0 =>
      /\ ppc \in {"poll", "reap_child", "wait"} =>
           \A s \in Chan : <<s, "w">> \notin popen
      /\ (ppc = "done" /\ nchild = 1) =>
           \A s \in Chan : <<s, "w">> \notin popen /\ <<s, "r">> \notin popen

\* C19: stdout_line_pos stays within 0 .. LineCap, before and after every
\* call of the renderer, whatever writes fail.  A stdout_putc call that
\* finds the buffer full stores its byte only after the buffer has been
\* written and reset: when that flush fails the call returns 1 with the
\* buffer unchanged, and a byte is never stored at index LineCap or beyond.
C19_LineBufferBound ==
    /\ stdout_line_pos >= 0 /\ stdout_line_pos <= LineCap
    /\ \A i \in DOMAIN calls :
         /\ calls[i].pos \in 0..LineCap /\ calls[i].pos1 \in 0..LineCap
         /\ (calls[i].fn = "stdout_putc" /\ calls[i].pos = LineCap
                                         /\ ~WroteFullBlock(i)) =>
                calls[i].rc = 1 /\ calls[i].pos1 = LineCap
         /\ (calls[i].fn = "stdout_putc" /\ calls[i].pos1 > calls[i].pos) =>
                calls[i].pos < LineCap /\ calls[i].pos1 = calls[i].pos + 1

\* a stdout byte found the buffer full, the flush failed, and the buffer
\* was left full with the byte not stored
C19_Witness ==
    /\ stdout_line_pos = LineCap
    /\ \E i \in DOMAIN calls :
         /\ calls[i].fn = "stdout_putc" /\ calls[i].pos = LineCap
         /\ calls[i].rc = 1 /\ calls[i].pos1 = LineCap
         /\ ~AllOk(W(i))
         /\ \A k \in DOMAIN stdout_line : stdout_line[k] # calls[i].c

\* The bytes handed to stdout_putc / stderr_putc, in the order of the calls,
\* and the bytes written for each origin: the stdout blocks, and the stderr
\* bytes (what went to fd 2 and is no marker).
Handed(fn) ==
    LET sel == SelectSeq(calls, LAMBDA e : e.fn = fn)
    IN  [k \in DOMAIN sel |-> sel[k].c]
StdoutWritten == Flatten(SelectSeq(out, LAMBDA e : e.fd = STDOUT_FILENO))
StderrWritten ==
    Flatten(SelectSeq(out, LAMBDA e : e.fd = STDERR_FILENO /\ ~IsMarker(e)))

\* C20: when no write has failed, after the closing flush the stdout blocks
\* written, concatenated, are the bytes handed to stdout_putc, and the
\* stderr bytes written are the bytes handed to stderr_putc, each in the
\* order of the calls.
C20_PerOriginFidelity ==
    (PastFlush /\ AllOk(out)) =>
        /\ StdoutWritten = Handed("stdout_putc")
        /\ StderrWritten = Handed("stderr_putc")

\* a run of more than LineCap stdout bytes has been written in two blocks,
\* the first of them the full buffer, with no write failed
C20_Witness ==
    /\ PastFlush /\ AllOk(out)
    /\ Len(Handed("stdout_putc")) > LineCap
    /\ \E k, m \in DOMAIN out :
         /\ k < m /\ out[k].fd = STDOUT_FILENO /\ out[m].fd = STDOUT_FILENO
         /\ Len(out[k].data) = LineCap
    /\ StdoutWritten = Handed("stdout_putc")

====
